---------------------------- MODULE Spec2Model ----------------------------
(***************************************************************************)
(* A model of the HTML resume -> Word document converter                   *)
(* (src/html_to_word.py) and of the /html2word endpoint that calls it      *)
(* (src/main.py).                                                          *)
(*                                                                         *)
(* Strings are sequences of one-character strings, so that whitespace      *)
(* normalisation, stripping and number parsing are computed, not assumed.  *)
(* The parsed document (the BeautifulSoup tree) is a tree of node records  *)
(* [name, class, text, children]; a text node has name "#text".  The       *)
(* python-docx Document is the sequence of its paragraphs, each a record   *)
(* of the paragraph_format fields the code sets and of its runs.           *)
(*                                                                         *)
(* Lengths are integers: points for spacing, hundredths of an inch for     *)
(* indents and tab stops, 1/4000 pt for font sizes (so that the px factor  *)
(* 0.75 and the em factor 12 stay exact), thousandths for line heights.    *)
(***************************************************************************)
EXTENDS Integers, Sequences, FiniteSets, TLC

VARIABLES
    pc,            \* position in the code of the running call
    caller,        \* "http": html_to_word is called by the endpoint; "direct": by a library user
    html_content,  \* the input: [raw, name, contact, body, styles]; raw is "empty", "blank" or "content"
    soup,          \* the parsed tree's top-level sibling elements (mutated by extract())
    doc,           \* the Document: the sequence of its paragraphs (created at pc = "html_to_word")
    font_size_pt,  \* _extract_css_styles: font size, 1/4000 pt
    line_height,   \* _extract_css_styles: line height, thousandths
    idx,           \* loop index of _process_sections, or of the loop over the style elements
    tmp_file,      \* the temporary .docx file: "none" (not created), "exists" or "removed"
    saved,         \* doc.save() wrote the document to output_path
    response,      \* what the call gave its caller: "none", a status code, "doc" or an exception name
    li,            \* the li element _process_list is working on
    has_dot,       \* _process_list local
    right_text,    \* _process_list local
    css_block      \* _extract_css_styles local: the block the last iteration matched, <<>> if none

vars == <<pc, caller, html_content, soup, doc, font_size_pt, line_height, idx,
          tmp_file, saved, response, li, has_dot, right_text, css_block>>

-----------------------------------------------------------------------------
(* Bounds of the model *)

MaxTextLen == 2      \* characters in a text node of a text-rich list item
MaxKids == 2         \* child nodes of a marker-rich list item
MaxStyleTags == 2    \* style elements in the input
MaxBlocks == 2       \* rule blocks in one style element
MaxSiblings == 3     \* top-level sibling elements of the resume body
MaxItems == 1        \* li elements in one ul of the resume body

-----------------------------------------------------------------------------
(* Text *)

\* The characters str.strip() removes that occur in the inputs.
Whitespace == {" ", "\t", "\n", "\r"}

\* The class [\n\r] of the walker's re.sub.
Newlines == {"\n", "\r"}

RECURSIVE LStrip(_)
LStrip(s) ==
    IF s = <<>> THEN <<>>
    ELSE IF Head(s) \in Whitespace THEN LStrip(Tail(s))
    ELSE s

RECURSIVE RStrip(_)
RStrip(s) ==
    IF s = <<>> THEN <<>>
    ELSE IF s[Len(s)] \in Whitespace THEN RStrip(SubSeq(s, 1, Len(s) - 1))
    ELSE s

\* str.strip()
Strip(s) == RStrip(LStrip(s))

RECURSIVE SkipNewlines(_)
SkipNewlines(s) ==
    IF s = <<>> THEN <<>>
    ELSE IF Head(s) \in Newlines THEN SkipNewlines(Tail(s))
    ELSE s

\* re.sub(r'[\n\r]+', ' ', text): every maximal run of newline characters
\* becomes one space.
RECURSIVE SubNewlines(_)
SubNewlines(s) ==
    IF s = <<>> THEN <<>>
    ELSE IF Head(s) \in Newlines THEN <<" ">> \o SubNewlines(SkipNewlines(s))
    ELSE <<Head(s)>> \o SubNewlines(Tail(s))

\* A mutant of NormalizeText: the newlines are replaced, the edges not trimmed.
NormalizeTextNoStrip(s) == SubNewlines(s)

\* The walker's three lines: re.sub, then strip.
NormalizeText(s) == Strip(SubNewlines(s))

-----------------------------------------------------------------------------
(* The parsed tree *)

Text(t) == [name |-> "#text", class |-> "", text |-> t, children |-> <<>>]
Elem(n, c, kids) == [name |-> n, class |-> c, text |-> <<>>, children |-> kids]

IsTag(n) == n.name # "#text"

\* Tag._all_strings: the descendant strings in document order.
RECURSIVE AllStrings(_)
RECURSIVE AllStringsOf(_)
AllStrings(n) == IF IsTag(n) THEN AllStringsOf(n.children) ELSE <<n.text>>
AllStringsOf(kids) ==
    IF kids = <<>> THEN <<>>
    ELSE AllStrings(Head(kids)) \o AllStringsOf(Tail(kids))

RECURSIVE JoinWithSpace(_)
JoinWithSpace(ss) ==
    IF ss = <<>> THEN <<>>
    ELSE IF Len(ss) = 1 THEN ss[1]
    ELSE ss[1] \o <<" ">> \o JoinWithSpace(Tail(ss))

\* get_text(separator=' ', strip=False)
GetTextSep(n) == JoinWithSpace(AllStrings(n))

RECURSIVE JoinStripped(_)
JoinStripped(ss) ==
    IF ss = <<>> THEN <<>>
    ELSE Strip(ss[1]) \o JoinStripped(Tail(ss))

\* get_text(strip=True): the stripped strings, the empty ones skipped, joined by ''.
GetTextStrip(n) == JoinStripped(AllStrings(n))

IsSpan(n, c) == n.name = "span" /\ n.class = c

\* li.find('span', class_=c) is not None: some descendant is such a span.
RECURSIVE HasSpan(_, _)
HasSpan(kids, c) ==
    /\ kids # <<>>
    /\ \/ IsSpan(Head(kids), c)
       \/ HasSpan(Head(kids).children, c)
       \/ HasSpan(Tail(kids), c)

\* li.find('span', class_=c): the first such descendant in document order.
RECURSIVE FindSpan(_, _)
FindSpan(kids, c) ==
    IF IsSpan(Head(kids), c) THEN Head(kids)
    ELSE IF HasSpan(Head(kids).children, c) THEN FindSpan(Head(kids).children, c)
    ELSE FindSpan(Tail(kids), c)

\* find(...).extract(): the tree without its first such descendant.
RECURSIVE ExtractSpan(_, _)
ExtractSpan(kids, c) ==
    IF kids = <<>> THEN <<>>
    ELSE IF IsSpan(Head(kids), c) THEN Tail(kids)
    ELSE IF HasSpan(Head(kids).children, c)
         THEN <<[Head(kids) EXCEPT !.children = ExtractSpan(@, c)]>> \o Tail(kids)
    ELSE <<Head(kids)>> \o ExtractSpan(Tail(kids), c)

-----------------------------------------------------------------------------
(* The document *)

DefaultFontSize == 44000     \* 11.0 pt
DefaultLineHeight == 1150    \* 1.15
NameScale == 238             \* 2.38 x the base font size
ContactScale == 114          \* 1.14 x
TitleScale == 124            \* 1.24 x
BodyScale == 100             \* 1.0 x
HeaderSpace == 6             \* Pt(6) after the header area
SectionSpace == 8            \* Pt(8) between sections
ListIndent == 30             \* Inches(0.3)
RightTabStop == 600          \* Inches(6.0)

\* '• ', the run that stands for the bullet (the glyph is written "*" here).
BulletGlyph == <<"*", " ">>

\* doc.add_paragraph(): nothing set yet (-1: the format field is None).
NewParagraph ==
    [alignment |-> "inherit", runs |-> <<>>, space_before |-> -1, space_after |-> -1,
     left_indent |-> -1, tab_stop |-> -1, line_spacing |-> -1, border |-> FALSE]

\* para.add_run(text) with run.font.size, run.bold and run.italic set.
Run(text, bold, italic, size) ==
    [text |-> text, bold |-> bold, italic |-> italic, size |-> size]

\* The walker's leaf case: normalise, and add a run only `if text`.
FormattedRun(raw, bold, italic, size) ==
    IF NormalizeText(raw) # <<>>
    THEN <<Run(NormalizeText(raw), bold, italic, size)>>
    ELSE <<>>

\* _process_nested_elements: the runs added for the children of a container.
RECURSIVE ProcessNestedElements(_, _)
ProcessNestedElements(kids, size) ==
    IF kids = <<>> THEN <<>>
    ELSE LET child == Head(kids) IN
         (IF IsTag(child)
          THEN IF child.name \in {"b", "strong"}
               THEN FormattedRun(GetTextSep(child), TRUE, FALSE, size)
               ELSE IF child.name \in {"i", "em"}
               THEN FormattedRun(GetTextSep(child), FALSE, TRUE, size)
               ELSE IF child.name \in {"span", "div", "p"}
               THEN ProcessNestedElements(child.children, size)
               ELSE FormattedRun(GetTextSep(child), FALSE, FALSE, size)
          ELSE FormattedRun(child.text, FALSE, FALSE, size))
         \o ProcessNestedElements(Tail(kids), size)

\* The loop over li_element.children of _add_list_item_with_formatting.
RECURSIVE ListItemRuns(_, _)
ListItemRuns(kids, size) ==
    IF kids = <<>> THEN <<>>
    ELSE LET element == Head(kids) IN
         (IF IsTag(element)
          THEN IF element.name \in {"b", "strong"}
               THEN FormattedRun(GetTextSep(element), TRUE, FALSE, size)
               ELSE IF element.name \in {"i", "em"}
               THEN FormattedRun(GetTextSep(element), FALSE, TRUE, size)
               ELSE IF element.name \in {"span", "div", "p"}
               THEN ProcessNestedElements(element.children, size)
               ELSE FormattedRun(GetTextSep(element), FALSE, FALSE, size)
          ELSE FormattedRun(element.text, FALSE, FALSE, size))
         \o ListItemRuns(Tail(kids), size)

\* _add_list_item_with_formatting: the paragraph added for one li.
AddListItemWithFormatting(li_element, dot, right, fs, lh) ==
    LET size == fs * BodyScale
        bullet == IF dot THEN <<Run(BulletGlyph, FALSE, FALSE, size)>> ELSE <<>>
        label == IF right # <<>> THEN <<Run(<<"\t">> \o right, FALSE, FALSE, size)>>
                 ELSE <<>>
    IN  [NewParagraph EXCEPT
            !.left_indent = IF dot THEN ListIndent ELSE @,
            !.runs = bullet \o ListItemRuns(li_element.children, size) \o label,
            !.tab_stop = IF right # <<>> THEN RightTabStop ELSE @,
            !.space_after = 1,
            !.space_before = 1,
            !.line_spacing = lh]

\* The body of _process_list's loop before the call: has_dot, right_text, and
\* the li with its first right-span and then its first dot span extracted.
LiHasDot(e) == HasSpan(e.children, "dot")
LiRightText(e) ==
    IF HasSpan(e.children, "right-span")
    THEN GetTextStrip(FindSpan(e.children, "right-span"))
    ELSE <<>>
LiExtracted(e) ==
    [e EXCEPT !.children = ExtractSpan(ExtractSpan(@, "right-span"), "dot")]

-----------------------------------------------------------------------------
(* _extract_css_styles *)

\* A style element's text is the sequence of its rule blocks; a block is
\* [selector, decls], a declaration [prop, value, unit] with the value a
\* character sequence.
Decl(p, v, u) == [prop |-> p, value |-> v, unit |-> u]
Block(sel, decls) == [selector |-> sel, decls |-> decls]

DigitChars == <<"0", "1", "2", "3", "4", "5", "6", "7", "8", "9">>
Digits == {DigitChars[k] : k \in 1..Len(DigitChars)}
DigitVal(c) == CHOOSE d \in 0..9 : DigitChars[d + 1] = c

\* ([\d.]+): the longest prefix of digits and dots.
RECURSIVE NumPrefix(_)
NumPrefix(v) ==
    IF v = <<>> \/ Head(v) \notin Digits \cup {"."} THEN <<>>
    ELSE <<Head(v)>> \o NumPrefix(Tail(v))

\* re.search(prop\s*:\s*([\d.]+)..., css_block): the first declaration of the
\* property whose value starts with a digit or a dot; <<>> when there is none.
RECURSIVE SearchDecl(_, _)
SearchDecl(decls, p) ==
    IF decls = <<>> THEN <<>>
    ELSE IF Head(decls).prop = p /\ NumPrefix(Head(decls).value) # <<>>
    THEN <<Head(decls)>>
    ELSE SearchDecl(Tail(decls), p)

\* group(2): the unit when it follows the number and is one of the four.
MatchedUnit(d) ==
    IF NumPrefix(d.value) = d.value /\ d.unit \in {"pt", "px", "em", "rem"}
    THEN d.unit ELSE "pt"

CountDots(tok) == Cardinality({k \in 1..Len(tok) : tok[k] = "."})

\* float(tok) succeeds on a digits-and-dots token: some digit, at most one dot.
IsFloat(tok) == CountDots(tok) <= 1 /\ Len(tok) > CountDots(tok)

RECURSIVE DigitsValue(_)
DigitsValue(ds) ==
    IF ds = <<>> THEN 0 ELSE DigitsValue(SubSeq(ds, 1, Len(ds) - 1)) * 10 + DigitVal(ds[Len(ds)])

DotAt(tok) == IF CountDots(tok) = 0 THEN Len(tok) + 1
              ELSE CHOOSE k \in 1..Len(tok) : tok[k] = "."

\* float(tok) in thousandths (the inputs carry at most three decimals).
FloatOf(tok) ==
    LET whole == SubSeq(tok, 1, DotAt(tok) - 1)
        frac == SubSeq(tok, DotAt(tok) + 1, Len(tok))
        pad == SubSeq(frac \o <<"0", "0", "0">>, 1, 3)
    IN  DigitsValue(whole) * 1000 + DigitsValue(pad)

\* The unit table: a value in thousandths to a size in 1/4000 pt.
ToPoints(v, unit) ==
    IF unit = "pt" THEN v * 4
    ELSE IF unit = "px" THEN v * 3          \* x 0.75
    ELSE IF unit \in {"em", "rem"} THEN v * 48   \* x 12
    ELSE v * 4

\* The `if a4_page_match:` body for one css_block, from the values so far:
\* the new values, or the ValueError float() raises.
ExtractFromBlock(block, fs, lh) ==
    LET fm == SearchDecl(block.decls, "font-size")
        lm == SearchDecl(block.decls, "line-height")
        fs1 == IF fm = <<>> THEN fs
               ELSE ToPoints(FloatOf(NumPrefix(fm[1].value)), MatchedUnit(fm[1]))
        lh1 == IF lm = <<>> THEN lh ELSE FloatOf(NumPrefix(lm[1].value))
    IN  IF fm # <<>> /\ ~IsFloat(NumPrefix(fm[1].value))
        THEN [font_size_pt |-> fs, line_height |-> lh, error |-> "ValueError"]
        ELSE IF lm # <<>> /\ ~IsFloat(NumPrefix(lm[1].value))
        THEN [font_size_pt |-> fs, line_height |-> lh, error |-> "ValueError"]
        ELSE [font_size_pt |-> fs1, line_height |-> lh1, error |-> "none"]

\* re.search(r'\.a4-page\s*\{[^}]*\}', css_content): the first .a4-page block
\* of one style element; <<>> when there is none.
RECURSIVE SearchA4Page(_)
SearchA4Page(css_content) ==
    IF css_content = <<>> THEN <<>>
    ELSE IF Head(css_content).selector = ".a4-page" THEN <<Head(css_content)>>
    ELSE SearchA4Page(Tail(css_content))

\* One iteration of `for style_tag in style_tags`.
StyleTagStep(css_content, fs, lh) ==
    IF SearchA4Page(css_content) = <<>>
    THEN [font_size_pt |-> fs, line_height |-> lh, error |-> "none"]
    ELSE ExtractFromBlock(SearchA4Page(css_content)[1], fs, lh)

\* _extract_css_styles over all the style elements, from the defaults.
RECURSIVE ExtractLoop(_, _, _)
ExtractLoop(style_tags, fs, lh) ==
    IF style_tags = <<>> THEN [font_size_pt |-> fs, line_height |-> lh, error |-> "none"]
    ELSE LET r == StyleTagStep(Head(style_tags), fs, lh) IN
         IF r.error # "none" THEN r
         ELSE ExtractLoop(Tail(style_tags), r.font_size_pt, r.line_height)

ExtractCssStyles(style_tags) ==
    ExtractLoop(style_tags, DefaultFontSize, DefaultLineHeight)

-----------------------------------------------------------------------------
(* List items: the inputs *)

\* The characters of the text nodes: a letter and the whitespace the walker
\* meets (space, tab, line feed, carriage return).
TextChars == {"a", " ", "\t", "\n", "\r"}

TextsUpTo(n) == UNION {[1..k -> TextChars] : k \in 1..n}

\* <span class="dot">D</span> and <span class="right-span">R</span>: the marker
\* texts use letters no other text uses.
DotSpan == Elem("span", "dot", <<Text(<<"D">>)>>)
RightSpan == Elem("span", "right-span", <<Text(<<"R">>)>>)
MarkerChars == {"D", "R"}

\* The ways a text node sits in a list item: each kind of node the walker
\* tells apart, at the top level and inside containers.
Placements ==
    {"text", "b", "strong", "i", "em", "a", "span", "div-b", "p-em", "span-a",
     "span-div", "markers"}

Place(w, t) ==
    CASE w = "text" -> <<Text(t)>>
      [] w \in {"b", "strong", "i", "em", "a", "span"} -> <<Elem(w, "", <<Text(t)>>)>>
      [] w = "div-b" -> <<Elem("div", "", <<Elem("b", "", <<Text(t)>>)>>)>>
      [] w = "p-em" -> <<Elem("p", "", <<Elem("em", "", <<Text(t)>>)>>)>>
      [] w = "span-a" -> <<Elem("span", "", <<Elem("a", "", <<Text(t)>>)>>)>>
      [] w = "span-div" -> <<Elem("span", "", <<Elem("div", "", <<Text(t)>>)>>)>>
      [] w = "markers" -> <<DotSpan, Text(t), RightSpan>>

\* The children of a list item whose text nodes vary: one text in each
\* placement, and two texts side by side or joined inside one bold element.
TextRichKids ==
    { Place(w, t) : w \in Placements, t \in TextsUpTo(MaxTextLen) }
    \cup
    { <<Text(t1), Elem("b", "", <<Text(t2)>>)>>
        : t1 \in TextsUpTo(MaxTextLen), t2 \in TextsUpTo(MaxTextLen) }
    \cup
    { <<Elem("b", "", <<Text(t1), Elem("i", "", <<Text(t2)>>)>>)>>
        : t1 \in TextsUpTo(MaxTextLen), t2 \in TextsUpTo(MaxTextLen) }

\* The nodes of a list item whose markers vary: in number, place and depth.
MarkerRichNodes ==
    { Text(<<"a">>),
      Elem("b", "", <<Text(<<"a">>)>>),
      DotSpan,
      RightSpan,
      Elem("span", "right-span", <<>>),
      Elem("span", "", <<DotSpan>>),
      Elem("span", "", <<RightSpan>>),
      Elem("b", "", <<Text(<<"a">>), DotSpan>>),
      Elem("span", "right-span", <<DotSpan, Text(<<"R">>)>>) }

MarkerRichKids == UNION {[1..k -> MarkerRichNodes] : k \in 0..MaxKids}

ListItems == {Elem("li", "", kids) : kids \in TextRichKids \cup MarkerRichKids}

UlSection(items) == Elem("ul", "ul-section", items)

-----------------------------------------------------------------------------
(* One list item through _process_list: SpecItem *)

InitItem ==
    /\ pc = "li"
    /\ caller = "direct"
    /\ \E e \in ListItems :
          /\ html_content = [raw |-> "content", name |-> FALSE, contact |-> FALSE,
                             body |-> <<UlSection(<<e>>)>>, styles |-> <<>>]
          /\ li = e
    /\ soup = html_content.body
    /\ doc = <<>>
    /\ font_size_pt = DefaultFontSize
    /\ line_height = DefaultLineHeight
    /\ idx = 0
    /\ tmp_file = "none"
    /\ saved = FALSE
    /\ response = "none"
    /\ has_dot = FALSE
    /\ right_text = <<>>
    /\ css_block = <<>>

\* _process_list, one li, up to the call: the markers are read and extracted.
ExtractMarkers ==
    /\ pc = "li"
    /\ has_dot' = LiHasDot(li)
    /\ right_text' = LiRightText(li)
    /\ li' = LiExtracted(li)
    /\ soup' = <<UlSection(<<li'>>)>>
    /\ pc' = "format"
    /\ UNCHANGED <<caller, html_content, doc, font_size_pt, line_height, idx,
                   tmp_file, saved, response, css_block>>

\* _add_list_item_with_formatting on the li as extraction left it.
AddListItem ==
    /\ pc = "format"
    /\ doc' = Append(doc, AddListItemWithFormatting(li, has_dot, right_text,
                                                    font_size_pt, line_height))
    /\ pc' = "item_done"
    /\ UNCHANGED <<caller, html_content, soup, font_size_pt, line_height, idx,
                   tmp_file, saved, response, li, has_dot, right_text, css_block>>

NextItem == ExtractMarkers \/ AddListItem

SpecItem == InitItem /\ [][NextItem]_vars

-----------------------------------------------------------------------------
(* Reading the document back *)

IsItemParagraph(p) == p.space_after = 1 /\ p.space_before = 1
HasBullet(p) == p.left_indent = ListIndent
HasRightLabel(p) == p.tab_stop = RightTabStop

\* The runs of an item paragraph that the walker produced: all but the bullet
\* run in front and the tab-prefixed label run at the end.
FragmentRuns(p) ==
    SubSeq(p.runs,
           IF HasBullet(p) THEN 2 ELSE 1,
           IF HasRightLabel(p) THEN Len(p.runs) - 1 ELSE Len(p.runs))

Chars(s) == {s[k] : k \in 1..Len(s)}

ItemParagraphs == {k \in 1..Len(doc) : IsItemParagraph(doc[k])}

InputItem == html_content.body[1].children[1]

-----------------------------------------------------------------------------
(* Claims about list items *)

\* C7 (as stated): no fragment run of a list item carries text of a span.dot
\* or span.right-span descendant, however many such markers the item has.
C7_MarkerTextNeverInFragments ==
    \A k \in ItemParagraphs :
        \A j \in 1..Len(FragmentRuns(doc[k])) :
            Chars(FragmentRuns(doc[k])[j].text) \cap MarkerChars = {}

\* C10: every fragment run has non-empty text with no line feed or carriage
\* return and no whitespace at either end, and normalising it again changes
\* nothing.
C10_FragmentsNormalized ==
    \A k \in ItemParagraphs :
        \A j \in 1..Len(FragmentRuns(doc[k])) :
            LET t == FragmentRuns(doc[k])[j].text IN
            /\ t # <<>>
            /\ Chars(t) \cap Newlines = {}
            /\ t[1] \notin Whitespace
            /\ t[Len(t)] \notin Whitespace
            /\ NormalizeText(t) = t

\* C10's case: an item with a whitespace-only string (dropped) and a string
\* that holds a newline and is changed by normalisation (emitted, as the one
\* fragment run of the paragraph).
C10_Witness ==
    /\ pc = "item_done"
    /\ \E s \in Chars(AllStrings(InputItem)) : s # <<>> /\ NormalizeText(s) = <<>>
    /\ \E s \in Chars(AllStrings(InputItem)) :
          /\ Chars(s) \cap Newlines # {}
          /\ NormalizeText(s) # <<>>
          /\ NormalizeText(s) # s
    /\ Len(FragmentRuns(doc[1])) = 1

-----------------------------------------------------------------------------
(* Style elements: the inputs *)

FontSizeSamples ==
    { <<>>,
      <<Decl("font-size", <<"1", "2">>, "pt")>>,
      <<Decl("font-size", <<"1", "6">>, "px")>>,
      <<Decl("font-size", <<".">>, "pt")>> }

LineHeightSamples ==
    { <<>>,
      <<Decl("line-height", <<"1", ".", "6">>, "")>>,
      <<Decl("line-height", <<".">>, "")>> }

\* .a4-page blocks: the products of the samples above, and blocks for the
\* remaining units, a unit-less size, a keyword before a number, and a token
\* with two dots.
A4Blocks ==
    { Block(".a4-page", f \o l) : f \in FontSizeSamples, l \in LineHeightSamples }
    \cup
    { Block(".a4-page", <<Decl("font-size", <<"1", ".", "5">>, "em")>>),
      Block(".a4-page", <<Decl("font-size", <<"2">>, "rem")>>),
      Block(".a4-page", <<Decl("font-size", <<"1", "0", ".", "5">>, ""),
                          Decl("line-height", <<"2">>, "")>>),
      Block(".a4-page", <<Decl("font-size", <<"l", "a", "r", "g", "e">>, ""),
                          Decl("font-size", <<"9">>, "pt")>>),
      Block(".a4-page", <<Decl("font-size", <<"1", ".", "2", ".", "3">>, "pt")>>) }

OtherBlock == Block("body", <<Decl("font-size", <<"2", "0">>, "pt")>>)

StyleTags == UNION {[1..k -> A4Blocks \cup {OtherBlock}] : k \in 0..MaxBlocks}

StyleInputs == UNION {[1..k -> StyleTags] : k \in 0..MaxStyleTags}

-----------------------------------------------------------------------------
(* _extract_css_styles, one style element at a time: SpecCss *)

InitCss ==
    /\ pc = "css_loop"
    /\ caller = "direct"
    /\ \E st \in StyleInputs :
          html_content = [raw |-> "content", name |-> FALSE, contact |-> FALSE,
                          body |-> <<>>, styles |-> st]
    /\ soup = <<>>
    /\ doc = <<>>
    /\ font_size_pt = DefaultFontSize
    /\ line_height = DefaultLineHeight
    /\ idx = 0
    /\ tmp_file = "none"
    /\ saved = FALSE
    /\ response = "none"
    /\ li = Elem("li", "", <<>>)
    /\ has_dot = FALSE
    /\ right_text = <<>>
    /\ css_block = <<>>

\* One iteration of the loop over the style elements: the values are
\* overwritten from the element's first .a4-page block, or float() raises.
ProcessStyleTag ==
    /\ pc = "css_loop"
    /\ idx < Len(html_content.styles)
    /\ LET css_content == html_content.styles[idx + 1]
           r == StyleTagStep(css_content, font_size_pt, line_height)
       IN  /\ css_block' = SearchA4Page(css_content)
           /\ font_size_pt' = r.font_size_pt
           /\ line_height' = r.line_height
           /\ IF r.error = "none"
              THEN pc' = "css_loop" /\ response' = response
              ELSE pc' = "raised" /\ response' = r.error
    /\ idx' = idx + 1
    /\ UNCHANGED <<caller, html_content, soup, doc, tmp_file, saved, li, has_dot,
                   right_text>>

\* return font_size_pt, line_height
CssReturn ==
    /\ pc = "css_loop"
    /\ idx = Len(html_content.styles)
    /\ pc' = "css_done"
    /\ UNCHANGED <<caller, html_content, soup, doc, font_size_pt, line_height, idx,
                   tmp_file, saved, response, li, has_dot, right_text, css_block>>

NextCss == ProcessStyleTag \/ CssReturn

SpecCss == InitCss /\ [][NextCss]_vars

-----------------------------------------------------------------------------
(* Claims about style extraction *)

RECURSIVE Flatten(_)
Flatten(ss) == IF ss = <<>> THEN <<>> ELSE Head(ss) \o Flatten(Tail(ss))

\* The .a4-page blocks of the input, in document order.
A4BlocksInDocument ==
    SelectSeq(Flatten(html_content.styles), LAMBDA b : b.selector = ".a4-page")

\* What one block alone gives, from the defaults.
FromBlockAlone(b) == ExtractFromBlock(b, DefaultFontSize, DefaultLineHeight)

\* C3 (as stated): the returned font size and line height come from the first
\* .a4-page block in document order alone; a property it lacks keeps its
\* default whatever later blocks declare.
C3_OnlyFirstBlockUsed ==
    (pc = "css_done" /\ A4BlocksInDocument # <<>>) =>
        /\ font_size_pt = FromBlockAlone(A4BlocksInDocument[1]).font_size_pt
        /\ line_height = FromBlockAlone(A4BlocksInDocument[1]).line_height

-----------------------------------------------------------------------------
(* html_to_word: header, sections, lists *)

NameText == <<"N">>
ContactText == <<"C">>

\* _process_header: the paragraphs for the name-header and contact-info
\* blocks that the input has.
HeaderParagraphs(has_name, has_contact, fs) ==
    (IF has_name
     THEN <<[NewParagraph EXCEPT
               !.alignment = "center",
               !.runs = <<Run(Strip(NameText), TRUE, FALSE, fs * NameScale)>>,
               !.space_after = 6]>>
     ELSE <<>>)
    \o
    (IF has_contact
     THEN <<[NewParagraph EXCEPT
               !.alignment = "center",
               !.runs = <<Run(Strip(ContactText), FALSE, FALSE, fs * ContactScale)>>,
               !.space_after = 12]>>
     ELSE <<>>)

\* A mutant of AddSpacerTo: the spacer is added only below a header block.
AddSpacerIfHeader(d) ==
    IF d = <<>> THEN d ELSE Append(d, [NewParagraph EXCEPT !.space_after = HeaderSpace])

\* doc.add_paragraph().paragraph_format.space_after = Pt(6)
AddSpacerTo(d) == Append(d, [NewParagraph EXCEPT !.space_after = HeaderSpace])

\* _add_section_title
TitleParagraph(title, fs) ==
    [NewParagraph EXCEPT
        !.runs = <<Run(title, TRUE, FALSE, fs * TitleScale)>>,
        !.border = TRUE,
        !.space_after = 6,
        !.space_before = 6]

\* doc.add_paragraph().paragraph_format.space_after = Pt(8)
SeparatorParagraph == [NewParagraph EXCEPT !.space_after = SectionSpace]

\* soup.find_all('div', class_='section-title'): the places of the titles.
SectionPositions(siblings) ==
    SelectSeq([k \in 1..Len(siblings) |-> k],
              LAMBDA k : siblings[k].name = "div" /\ siblings[k].class = "section-title")

IsUlSection(e) == e.name = "ul" /\ e.class = "ul-section"

\* section.find_next_sibling('ul', class_='ul-section'): the place of the
\* closest later sibling that is such a list, 0 when there is none.
FindNextSibling(siblings, pos) ==
    IF \E j \in (pos + 1)..Len(siblings) : IsUlSection(siblings[j])
    THEN CHOOSE j \in (pos + 1)..Len(siblings) :
            /\ IsUlSection(siblings[j])
            /\ \A i \in (pos + 1)..(j - 1) : ~IsUlSection(siblings[i])
    ELSE 0

\* _process_list: the paragraphs for the li children of a ul, in order.
RECURSIVE ProcessList(_, _, _)
ProcessList(lis, fs, lh) ==
    IF lis = <<>> THEN <<>>
    ELSE <<AddListItemWithFormatting(LiExtracted(Head(lis)), LiHasDot(Head(lis)),
                                     LiRightText(Head(lis)), fs, lh)>>
         \o ProcessList(Tail(lis), fs, lh)

\* The ul as _process_list leaves it: every li with its markers extracted.
ListAfterProcessing(ul) ==
    [ul EXCEPT !.children = [k \in 1..Len(@) |-> LiExtracted(@[k])]]

\* A mutant of NeedsSeparator: the last section gets a separator too.
NeedsSeparatorAlways(i, n) == i <= n - 1

\* if idx < len(sections) - 1
NeedsSeparator(i, n) == i < n - 1

-----------------------------------------------------------------------------
(* The resume: the inputs *)

OtherElement == Elem("p", "", <<Text(<<"a">>)>>)
TitlePlaceholder == Elem("div", "section-title", <<>>)

\* The list items of the resume body: a plain one, and one with a bullet
\* marker, bold lead text and a right label.
SectionItems ==
    { Elem("li", "", <<Text(<<"a">>)>>),
      Elem("li", "", <<DotSpan, Elem("b", "", <<Text(<<"a">>)>>), Text(<<" ", "a">>),
                       RightSpan>>) }

SectionLists == {UlSection(items) : items \in UNION {[1..k -> SectionItems] : k \in 0..MaxItems}}

BodyShapes ==
    UNION {[1..k -> {TitlePlaceholder, OtherElement} \cup SectionLists] : k \in 0..MaxSiblings}

\* The k-th sibling of a title is given the title text "T<k>".
BodyOf(shape) ==
    [k \in 1..Len(shape) |->
        IF shape[k] = TitlePlaceholder
        THEN Elem("div", "section-title", <<Text(<<" ", "T", DigitChars[k + 1]>>)>>)
        ELSE shape[k]]

\* The style elements of the resume: none, one well-formed .a4-page rule
\* (10.5pt, 1.6), one whose font size is the token '.'.
ResumeStyles ==
    { <<>>,
      << <<Block(".a4-page", <<Decl("font-size", <<"1", "0", ".", "5">>, "pt"),
                               Decl("line-height", <<"1", ".", "6">>, "")>>)>> >>,
      << <<Block(".a4-page", <<Decl("font-size", <<".">>, "pt")>>)>> >> }

HtmlInputs ==
    { [raw |-> "content", name |-> n, contact |-> c, body |-> BodyOf(sh), styles |-> st]
        : n \in BOOLEAN, c \in BOOLEAN, sh \in BodyShapes, st \in ResumeStyles }
    \cup
    { [raw |-> r, name |-> FALSE, contact |-> FALSE, body |-> <<>>, styles |-> <<>>]
        : r \in {"empty", "blank"} }

-----------------------------------------------------------------------------
(* html_to_word, step by step *)

locals == <<li, has_dot, right_text, css_block>>

\* An exception leaves html_to_word: to the endpoint's `except Exception`, or
\* to the library user.
Raise(e) ==
    /\ pc' = IF caller = "http" THEN "except" ELSE "raised"
    /\ response' = IF caller = "http" THEN response ELSE e

\* doc = Document(); soup = BeautifulSoup(html_content, 'lxml').  Nothing
\* looks at whether html_content is empty.
CreateDocument ==
    /\ pc = "html_to_word"
    /\ doc' = <<>>
    /\ soup' = html_content.body
    /\ pc' = "extract_css"
    /\ UNCHANGED <<caller, html_content, font_size_pt, line_height, idx, tmp_file,
                   saved, response, locals>>

\* font_size_pt, line_height = _extract_css_styles(soup), then _setup_styles
\* (the Normal style takes both values).
ExtractCss ==
    /\ pc = "extract_css"
    /\ LET r == ExtractCssStyles(html_content.styles) IN
       IF r.error = "none"
       THEN /\ font_size_pt' = r.font_size_pt
            /\ line_height' = r.line_height
            /\ pc' = "header"
            /\ response' = response
       ELSE /\ Raise(r.error)
            /\ UNCHANGED <<font_size_pt, line_height>>
    /\ UNCHANGED <<caller, html_content, soup, doc, idx, tmp_file, saved, locals>>

\* _process_header
ProcessHeader ==
    /\ pc = "header"
    /\ doc' = doc \o HeaderParagraphs(html_content.name, html_content.contact,
                                      font_size_pt)
    /\ pc' = "spacer"
    /\ UNCHANGED <<caller, html_content, soup, font_size_pt, line_height, idx,
                   tmp_file, saved, response, locals>>

\* The blank paragraph below the header area.
AddSpacer ==
    /\ pc = "spacer"
    /\ doc' = AddSpacerTo(doc)
    /\ idx' = 0
    /\ pc' = "sections"
    /\ UNCHANGED <<caller, html_content, soup, font_size_pt, line_height,
                   tmp_file, saved, response, locals>>

\* One iteration of _process_sections' loop: the title, the list that
\* find_next_sibling gives (its items lose their markers), the separator.
ProcessSection ==
    /\ pc = "sections"
    /\ idx < Len(SectionPositions(soup))
    /\ LET sections == SectionPositions(soup)
           section == sections[idx + 1]
           next_ul == FindNextSibling(soup, section)
       IN  /\ doc' = doc
                     \o <<TitleParagraph(GetTextStrip(soup[section]), font_size_pt)>>
                     \o (IF next_ul # 0
                         THEN ProcessList(soup[next_ul].children, font_size_pt,
                                          line_height)
                         ELSE <<>>)
                     \o (IF NeedsSeparator(idx, Len(sections))
                         THEN <<SeparatorParagraph>> ELSE <<>>)
           /\ soup' = IF next_ul # 0
                      THEN [soup EXCEPT ![next_ul] = ListAfterProcessing(@)]
                      ELSE soup
    /\ idx' = idx + 1
    /\ UNCHANGED <<pc, caller, html_content, font_size_pt, line_height, tmp_file,
                   saved, response, locals>>

\* The loop is over: _save_document writes the file, html_to_word returns doc.
SaveDocument ==
    /\ pc = "sections"
    /\ idx = Len(SectionPositions(soup))
    /\ saved' = TRUE
    /\ pc' = IF caller = "http" THEN "read" ELSE "returned"
    /\ response' = IF caller = "http" THEN response ELSE "doc"
    /\ UNCHANGED <<caller, html_content, soup, doc, font_size_pt, line_height, idx,
                   tmp_file, locals>>

\* doc.save() fails: _save_document raises IOError.
SaveDocumentFails ==
    /\ pc = "sections"
    /\ idx = Len(SectionPositions(soup))
    /\ Raise("IOError")
    /\ UNCHANGED <<caller, html_content, soup, doc, font_size_pt, line_height, idx,
                   tmp_file, saved, locals>>

HtmlToWord ==
    \/ CreateDocument
    \/ ExtractCss
    \/ ProcessHeader
    \/ AddSpacer
    \/ ProcessSection
    \/ SaveDocument
    \/ SaveDocumentFails

InitCall ==
    /\ html_content \in HtmlInputs
    /\ soup = <<>>
    /\ doc = <<>>
    /\ font_size_pt = DefaultFontSize
    /\ line_height = DefaultLineHeight
    /\ idx = 0
    /\ tmp_file = "none"
    /\ saved = FALSE
    /\ response = "none"
    /\ li = Elem("li", "", <<>>)
    /\ has_dot = FALSE
    /\ right_text = <<>>
    /\ css_block = <<>>

\* html_to_word called by a library user, with an output_path.
Init == InitCall /\ caller = "direct" /\ pc = "html_to_word"

Next == HtmlToWord

Spec == Init /\ [][Next]_vars

-----------------------------------------------------------------------------
(* The /html2word endpoint: SpecHttp *)

\* A mutant of UnlinkOnError: the failure path forgets the file.
UnlinkOnErrorForgotten(f) == f

\* if os.path.exists(tmp_path): os.unlink(tmp_path), in the except clause
UnlinkOnError(f) == IF f = "exists" THEN "removed" ELSE f

\* remove_file()
RemoveFile(f) == IF f = "exists" THEN "removed" ELSE f

\* The emptiness test: HTTPException 400, re-raised by `except HTTPException`.
ValidateRequest ==
    /\ pc = "handler"
    /\ IF html_content.raw \in {"empty", "blank"}
       THEN pc' = "responded" /\ response' = "400"
       ELSE pc' = "mktemp" /\ response' = response
    /\ UNCHANGED <<caller, html_content, soup, doc, font_size_pt, line_height, idx,
                   tmp_file, saved, locals>>

\* NamedTemporaryFile(delete=False): the file is on disk when the with block ends.
MakeTempFile ==
    /\ pc = "mktemp"
    /\ tmp_file' = "exists"
    /\ pc' = "html_to_word"
    /\ UNCHANGED <<caller, html_content, soup, doc, font_size_pt, line_height, idx,
                   saved, response, locals>>

\* NamedTemporaryFile raises: the outer `except Exception` answers 500.
MakeTempFileFails ==
    /\ pc = "mktemp"
    /\ pc' = "responded"
    /\ response' = "500"
    /\ UNCHANGED <<caller, html_content, soup, doc, font_size_pt, line_height, idx,
                   tmp_file, saved, locals>>

\* open(tmp_path, 'rb') and f.read()
ReadFile ==
    /\ pc = "read"
    /\ pc' = "remove"
    /\ UNCHANGED <<caller, html_content, soup, doc, font_size_pt, line_height, idx,
                   tmp_file, saved, response, locals>>

ReadFileFails ==
    /\ pc = "read"
    /\ pc' = "except"
    /\ UNCHANGED <<caller, html_content, soup, doc, font_size_pt, line_height, idx,
                   tmp_file, saved, response, locals>>

\* remove_file(), then return Response(...)
RemoveAndRespond ==
    /\ pc = "remove"
    /\ tmp_file' = RemoveFile(tmp_file)
    /\ pc' = "responded"
    /\ response' = "200"
    /\ UNCHANGED <<caller, html_content, soup, doc, font_size_pt, line_height, idx,
                   saved, locals>>

\* except Exception: unlink the file, raise HTTPException 500.
ExceptCleanup ==
    /\ pc = "except"
    /\ tmp_file' = UnlinkOnError(tmp_file)
    /\ pc' = "responded"
    /\ response' = "500"
    /\ UNCHANGED <<caller, html_content, soup, doc, font_size_pt, line_height, idx,
                   saved, locals>>

InitHttp == InitCall /\ caller = "http" /\ pc = "handler"

NextHttp ==
    \/ ValidateRequest
    \/ MakeTempFile
    \/ MakeTempFileFails
    \/ HtmlToWord
    \/ ReadFile
    \/ ReadFileFails
    \/ RemoveAndRespond
    \/ ExceptCleanup

SpecHttp == InitHttp /\ [][NextHttp]_vars

-----------------------------------------------------------------------------
(* Reading the sections back *)

\* The places of the title paragraphs (the ones with the bottom border).
TitleParagraphs == SelectSeq([k \in 1..Len(doc) |-> k], LAMBDA k : doc[k].border)

RECURSIVE CountItemsFrom(_)
CountItemsFrom(k) ==
    IF k <= Len(doc) /\ IsItemParagraph(doc[k]) THEN 1 + CountItemsFrom(k + 1) ELSE 0

\* The item paragraphs rendered under the t-th title.
ItemsUnder(t) ==
    SubSeq(doc, TitleParagraphs[t] + 1,
           TitleParagraphs[t] + CountItemsFrom(TitleParagraphs[t] + 1))

InputBody == html_content.body
InputSections == SectionPositions(InputBody)

\* The li children of the element right after the t-th title of the input,
\* when that element is a ul.ul-section; no items otherwise.
ImmediateList(t) ==
    LET next == InputSections[t] + 1 IN
    IF next <= Len(InputBody) /\ IsUlSection(InputBody[next])
    THEN InputBody[next].children
    ELSE <<>>

\* The li elements of the input that the t-th title rendered.
RenderedList(t) ==
    LET next == FindNextSibling(InputBody, InputSections[t]) IN
    IF next # 0 THEN InputBody[next].children ELSE <<>>

\* The paragraphs above the first title (all of them when there is no title).
HeaderArea ==
    SubSeq(doc, 1, IF TitleParagraphs = <<>> THEN Len(doc) ELSE TitleParagraphs[1] - 1)

RunLess(paras) == {k \in 1..Len(paras) : paras[k].runs = <<>>}

\* The blank paragraphs with 8pt after them.
Separators == {k \in 1..Len(doc) : doc[k].runs = <<>> /\ doc[k].space_after = 8}

EmissionFailed == pc = "raised" /\ response = "IOError"

\* The spacer line of html_to_word has run.
SpacerAdded == pc \in {"sections", "returned"} \/ EmissionFailed

\* _process_sections has returned.
SectionsDone ==
    \/ pc = "sections" /\ idx = Len(SectionPositions(soup))
    \/ pc = "returned"
    \/ EmissionFailed

-----------------------------------------------------------------------------
(* Claims about html_to_word *)

\* C1 (as stated): the items rendered under a section title are exactly the
\* li children of the ul.ul-section right after the title; a title followed
\* by anything else renders no item.
C1_ItemsFromImmediateSiblingOnly ==
    \A t \in 1..Len(TitleParagraphs) :
        ItemsUnder(t) = ProcessList(ImmediateList(t), font_size_pt, line_height)

\* C2 (as stated): a direct call with empty or whitespace-only html_content
\* goes nowhere but to a ValueError: no Document, no processing, no file.
C2_EmptyInputRejected ==
    html_content.raw \in {"empty", "blank"} =>
        /\ pc \in {"html_to_word", "raised"}
        /\ pc = "raised" => response = "ValueError"
        /\ ~saved

\* C4 (as stated): a font-size or line-height that is no parsable number
\* falls back to the default; no ValueError reaches html_to_word's caller.
C4_MalformedStyleNeverPropagates == response # "ValueError"

\* C5 (as stated): exactly one run-less paragraph stands between the header
\* area and the first section title, with 8pt after it.
C5_HeaderSeparatorEightPt ==
    SpacerAdded =>
        /\ Cardinality(RunLess(HeaderArea)) = 1
        /\ \A k \in RunLess(HeaderArea) : HeaderArea[k].space_after = 8

\* C5 (amended): exactly one run-less paragraph stands between the header
\* area and the first section title, it is the last paragraph above the
\* title, below the name and contact paragraphs the input has, and it has
\* 6pt after it.
C5_HeaderSeparatorSixPt ==
    SpacerAdded =>
        /\ Cardinality(RunLess(HeaderArea)) = 1
        /\ Len(HeaderArea) = 1 + (IF html_content.name THEN 1 ELSE 0)
                               + (IF html_content.contact THEN 1 ELSE 0)
        /\ \A k \in RunLess(HeaderArea) :
              k = Len(HeaderArea) /\ HeaderArea[k].space_after = 6

\* C5's case: a document with a section and neither name nor contact block.
C5_Witness ==
    /\ pc = "returned"
    /\ ~html_content.name /\ ~html_content.contact
    /\ TitleParagraphs # <<>>
    /\ doc[1].runs = <<>>

\* C6: with n section titles, the title paragraphs are the input's titles in
\* document order, the paragraph right above each title but the first is a
\* blank one with 8pt after it, there are no other such paragraphs (n-1 in
\* all, none for n = 0), and none follows the last section.
C6_SeparatorsBetweenSections ==
    SectionsDone =>
        LET n == Len(InputSections) IN
        /\ Len(TitleParagraphs) = n
        /\ \A t \in 1..n :
              doc[TitleParagraphs[t]].runs[1].text
                  = GetTextStrip(InputBody[InputSections[t]])
        /\ Separators = {TitleParagraphs[t] - 1 : t \in 2..n}
        /\ Cardinality(Separators) = IF n = 0 THEN 0 ELSE n - 1
        /\ \A k \in Separators : n > 0 /\ k < TitleParagraphs[n]

\* C6's case: two sections or more, a separator, items under the last title.
C6_Witness ==
    /\ pc = "returned"
    /\ Len(TitleParagraphs) >= 2
    /\ Separators # {}
    /\ Len(ItemsUnder(Len(TitleParagraphs))) >= 1

\* C8 (as stated): every paragraph rendered for a list item has the indent
\* and the bullet run in front iff the li of the input has a span.dot, and
\* ends with the tab-prefixed label at a right tab stop when the li of the
\* input has a non-empty right label.
C8_BulletAndLabelFollowInput ==
    \A t \in 1..Len(TitleParagraphs) :
        \A j \in 1..Len(ItemsUnder(t)) :
            LET p == ItemsUnder(t)[j]
                src == RenderedList(t)[j]
            IN  /\ (HasBullet(p) /\ p.runs # <<>> /\ p.runs[1].text = BulletGlyph)
                       <=> LiHasDot(src)
                /\ LiRightText(src) # <<>> =>
                       /\ HasRightLabel(p)
                       /\ p.runs # <<>>
                       /\ p.runs[Len(p.runs)].text = <<"\t">> \o LiRightText(src)

-----------------------------------------------------------------------------
(* Claims about the endpoint *)

\* C9: when the handler has answered, the temporary file is not on disk:
\* it was removed on every path that created it, and the 400 path never
\* created it.
C9_TempFileGoneAtResponse ==
    pc = "responded" =>
        /\ tmp_file # "exists"
        /\ response = "400" => tmp_file = "none"

\* C9's case: a failure after the file was created, answered 500.
C9_Witness ==
    /\ pc = "responded"
    /\ response = "500"
    /\ tmp_file = "removed"

=============================================================================
